---------------------------- MODULE Spec2Model ----------------------------
(***************************************************************************)
(* A model of the freelancer auto-bid script: the recommendation engine    *)
(* (ai/recommender.ts), the proposal generator (ai/proposal.ts), the bid   *)
(* submitter/editor (bidder.ts), the listing scraper, converter and        *)
(* enricher (scraper.ts) and the orchestrator (index.ts).                  *)
(*                                                                         *)
(* Amounts are integers.  A page is a record of what its selectors find.   *)
(* An LLM response is the parsed JSON object; a missing or falsy field is  *)
(* the value 0 (JavaScript's `x || d` treats both alike).                  *)
(***************************************************************************)
EXTENDS Integers, Sequences, FiniteSets, TLC

VARIABLES
    \* ---- scoring (analyzeProject on a converted listing) ----
    sRaw,          \* <<the scraped card's budget text>>
    sProject,      \* <<the Project convertRawProjects made of it>>, or <<>>
    sParsed,       \* <<the parsed LLM response>>
    sScore,        \* <<the ProjectScore analyzeProject returned>>, or <<>>
    \* ---- bidder (submitBid / editBid against a page) ----
    bCall,         \* the call: function, arguments, and the page it meets
    bEvents,       \* what the call did to the page and the terminal, in order
    bMs,           \* editBid: the milestone amount inputs' values after the call
    bRet,          \* <<what the call returned>>, or <<>> before it ran
    \* ---- LLM calls with retry (recommendProjects, generateProposal) ----
    rFn,           \* "recommend" or "proposal": which caller runs
    rProjects,     \* the projects handed to it
    rIdx,          \* index of the project being processed
    rAttempt,      \* the retry loop's attempt counter
    rPc,           \* "call", "sleep", "delay", "sort", "done" or "threw"
    rDelay,        \* the backoff computed for the pending sleep (ms)
    rInv,          \* events of the current invocation of the retry loop
    rInvResult,    \* "running", "returned", "threw" or "template"
    rScores,       \* the scores recommendProjects has pushed
    \* ---- orchestrator (main) ----
    mCfg,          \* the command line: dryRun, improveBidsMode, skipDetails, useTemplate
    mPc,           \* main's position
    mBrowser,      \* "none", "open" or "closed"
    mRemaining,    \* <<bidStatus.remaining>> once getRemainingBids returned
    mPoor,         \* improve mode: the poorBids list
    mScores,       \* what recommendProjects returned
    mRecommended,  \* the filtered, sorted scores
    mToBid,        \* projectsToBid
    mIdx,          \* index into mPoor or mToBid
    mLog,          \* the collaborators' operations main invoked, in order
    \* ---- listing scraper (scrapeProjects over the search pages) ----
    pMaxProjects,  \* the maxProjects argument
    pMaxPages,     \* the maxPages argument
    pPageNum,      \* the loop's pageNum
    pAnchors,      \* the project anchors of the page fetched last, in DOM order
    pPrev,         \* allRawProjects before the page fetched last was merged
    pAll,          \* allRawProjects
    pNav,          \* per page.goto so far: how many projects were collected before it
    pPc,           \* "loop" or "done"
    pResult,       \* <<the projects scrapeProjects returned>>, or <<>>
    \* ---- enrichment (enrichProjectsWithDetails) ----
    eProjects,     \* the projects argument
    eMax,          \* the maxToEnrich argument
    eFetch,        \* per project handled so far: "ok", "threw" or "skipped"
    eOut,          \* enrichedProjects
    ePc,           \* "loop" or "done"
    \* ---- listing converter (convertRawProjects on one scraped card) ----
    cText,         \* <<the card's budget text>>
    cProject,      \* <<the budget of the Project made of it>>, or <<>>
    \* ---- bid edit suggestion (suggestBidEdit) ----
    gCall,         \* the arguments, the credential, and what the LLM does
    gOut,          \* <<the BidEditSuggestion returned>>, or <<>>
    \* ---- bid insights (getBidInsights' summary, main's improve mode) ----
    iBids,         \* the insights read from the table rows
    iBuckets,      \* <<the good / ok / poor display buckets>>, or <<>>
    iCalls,        \* improve mode: suggestBidEdit and editBid calls, in order
    iPc            \* "fetch", "improve" or "done"

scoreVars == <<sRaw, sProject, sParsed, sScore>>
bidVars == <<bCall, bEvents, bMs, bRet>>
recVars == <<rFn, rProjects, rIdx, rAttempt, rPc, rDelay, rInv, rInvResult, rScores>>
mainVars == <<mCfg, mPc, mBrowser, mRemaining, mPoor, mScores, mRecommended, mToBid, mIdx, mLog>>
scrapeVars == <<pMaxProjects, pMaxPages, pPageNum, pAnchors, pPrev, pAll, pNav, pPc, pResult>>
enrichVars == <<eProjects, eMax, eFetch, eOut, ePc>>
convVars == <<cText, cProject>>
suggestVars == <<gCall, gOut>>
insightVars == <<iBids, iBuckets, iCalls, iPc>>
moreVars == <<convVars, suggestVars, insightVars>>
vars == <<scoreVars, bidVars, recVars, mainVars, scrapeVars, enrichVars, moreVars>>

(***************************************************************************)
(* Bounds of the model.                                                    *)
(***************************************************************************)
MaxAmount == 4          \* budget figures and bid amounts range over 0..MaxAmount(+1)
MaxMsAmount == 2        \* milestone amounts range over 0..MaxMsAmount
MaxMilestones == 2      \* longest milestone list
MaxProjects == 2        \* longest project list
MaxRemaining == 2       \* largest remaining-bid count the dashboard shows
MaxBids == 2            \* most existing bids on the insights page
MaxPages == 2           \* largest maxPages argument of scrapeProjects
MaxAnchors == 2         \* most project anchors on one search page

(***************************************************************************)
(* Helpers.                                                                *)
(***************************************************************************)
\* Math.round(n / d) for d > 0: round half up, floor(n/d + 1/2).
Round(n, d) == (2 * n + d) \div (2 * d)

RECURSIVE SumSeq(_)
SumSeq(s) == IF s = <<>> THEN 0 ELSE Head(s) + SumSeq(Tail(s))

\* All sequences over S of length 0..n.
SeqsUpTo(S, n) == UNION {[1..k -> S] : k \in 0..n}

\* a || b on numbers: b when a is falsy (0, or absent).
OrElse(a, b) == IF a = 0 THEN b ELSE a

(***************************************************************************)
(* scraper.ts: convertRawProjects.  A budget text either matches the range *)
(* pattern  [sym]digits - [sym]digits [code]  or does not; when it does    *)
(* the two digit groups are read with parseInt, in the order they stand.   *)
(***************************************************************************)
RawBudgets ==
    {[matched |-> FALSE, lo |-> 0, hi |-> 0]}
    \cup {[matched |-> TRUE, lo |-> a, hi |-> b] : a \in 0..MaxAmount, b \in 0..MaxAmount}

convertRawBudget(raw) ==
    IF raw.matched
    THEN [min |-> raw.lo, max |-> raw.hi, parsed |-> TRUE]
    ELSE [min |-> 0, max |-> 0, parsed |-> FALSE]

(***************************************************************************)
(* ai/recommender.ts: analyzeProject, after JSON.parse.                    *)
(***************************************************************************)
deliveryDays == 14

\* Lines 238-245: default to budget.min, then the two one-sided clamps in turn.
ClampBid(bidAmount, budget) ==
    LET a == OrElse(bidAmount, budget.min)
        b == IF a < budget.min THEN budget.min ELSE a
    IN  IF b > budget.max THEN budget.max ELSE b

\* Lines 258-263: the three default milestones.
DefaultMilestones(bidAmount) ==
    << Round(bidAmount * 35, 100),
       Round(bidAmount * 45, 100),
       bidAmount - Round(bidAmount * 35, 100) - Round(bidAmount * 45, 100) >>

\* Lines 248-256: the last milestone absorbs the discrepancy.
NoAdjustMilestones(ms, bidAmount) == ms

AdjustMilestones(ms, bidAmount) ==
    LET total == SumSeq(ms)
    IN  IF total # bidAmount
        THEN [ms EXCEPT ![Len(ms)] = ms[Len(ms)] + (bidAmount - total)]
        ELSE ms

Milestones(ms, bidAmount) ==
    IF Len(ms) > 0 THEN AdjustMilestones(ms, bidAmount)
    ELSE DefaultMilestones(bidAmount)

\* Lines 266-277: the returned ProjectScore.
ScoreOf(parsed) == OrElse(parsed.score, 0)

analyzeProject(project, parsed) ==
    LET bidAmount == ClampBid(parsed.bidAmount, project.budget)
    IN  [ score |-> ScoreOf(parsed),
          amount |-> bidAmount,
          period |-> OrElse(parsed.bidPeriod, deliveryDays),
          milestones |-> Milestones(parsed.milestones, bidAmount),
          fromLLM |-> Len(parsed.milestones) > 0 ]

\* What the LLM may answer: any score, any amount, any milestone list.
ScoreValues == {-10, 0, 65, 100, 150}

ParsedResponses ==
    [ score : ScoreValues,
      bidAmount : 0..(MaxAmount + 1),
      bidPeriod : {0, 7},
      milestones : SeqsUpTo(0..MaxMsAmount, MaxMilestones) ]

ScoreInit ==
    /\ sRaw \in {<<raw>> : raw \in RawBudgets}
    /\ sParsed \in {<<p>> : p \in ParsedResponses}
    /\ sProject = <<>>
    /\ sScore = <<>>

ScoreIdle == sRaw = <<>> /\ sParsed = <<>> /\ sProject = <<>> /\ sScore = <<>>

\* convertRawProjects on the scraped card.
Convert ==
    /\ sRaw # <<>>
    /\ sProject = <<>>
    /\ sProject' = << [budget |-> convertRawBudget(sRaw[1])] >>
    /\ UNCHANGED <<sRaw, sParsed, sScore, bidVars, recVars, mainVars, scrapeVars, enrichVars, moreVars>>

\* One call of analyzeProject whose LLM request succeeded and whose text parsed.
Analyze ==
    /\ sProject # <<>>
    /\ sScore = <<>>
    /\ sScore' = << analyzeProject(sProject[1], sParsed[1]) >>
    /\ UNCHANGED <<sRaw, sProject, sParsed, bidVars, recVars, mainVars, scrapeVars, enrichVars, moreVars>>

(***************************************************************************)
(* bidder.ts: submitBid.  The page is what each selector finds on it:      *)
(*   indicator    one of the seven existing-bid selectors matches          *)
(*   phrase       the page text holds one of the three existing-bid texts  *)
(*   formAtCheck  #bidAmountInput is present when the check runs           *)
(*   closedText   the page text holds "already bid" or "Your Bid"          *)
(*   amount, proposal   which selector finds the field, if any             *)
(*   rows         milestone rows the form starts with                      *)
(*   addable      how many times the add-milestone control is enabled      *)
(*   throwAt      the awaited page operation that rejects, if any          *)
(***************************************************************************)
FieldFound == {"primary", "alt", "none"}

SubmitPages ==
    [ indicator : BOOLEAN, phrase : BOOLEAN, formAtCheck : BOOLEAN,
      closedText : BOOLEAN,
      amount : FieldFound, period : BOOLEAN, proposal : FieldFound,
      rows : 0..1, addable : 0..(MaxMilestones - 1),
      submitButton : BOOLEAN, errorAlert : BOOLEAN,
      throwAt : {"none", "goto", "check", "screenshot", "afterClick"} ]

\* Lines 31-67: the existing-bid check evaluated in the page.
alreadyBidSelectorsOnly(page) == page.indicator

alreadyBid(page) ==
    \/ page.indicator
    \/ page.phrase
    \/ (~page.formAtCheck /\ page.closedText)

\* Lines 90-133: amount, period and proposal, each through its selector chain.
fillFields(page) ==
    (CASE page.amount = "primary" -> <<"click amount", "fill amount">>
       [] page.amount = "alt" -> <<"fill amount">>
       [] OTHER -> <<"log no amount input">>)
    \o (IF page.period THEN <<"click period", "fill period">>
        ELSE <<"log no period input">>)
    \o (CASE page.proposal = "primary" -> <<"click proposal", "fill proposal">>
          [] page.proposal = "alt" -> <<"fill proposal">>
          [] OTHER -> <<"log no proposal input">>)

\* Lines 136-176: milestone i of n, after `clicks` uses of the add control.
RECURSIVE fillMilestones(_, _, _, _)
fillMilestones(i, n, clicks, page) ==
    IF i >= n THEN <<>>
    ELSE IF i > 0 /\ clicks >= page.addable THEN <<"log cannot add milestone">>
    ELSE LET c == IF i > 0 THEN clicks + 1 ELSE clicks
             add == IF i > 0 THEN <<"click addMilestone">> ELSE <<>>
             fill == IF page.rows + c > i
                     THEN <<"click milestone", "fill milestone">>
                     ELSE <<"log no milestone input">>
         IN  add \o fill \o fillMilestones(i + 1, n, c, page)

\* Lines 186-227: after the preview screenshot.
submitTailIgnoringDryRun(page, dryRun) ==
    IF ~page.submitButton
    THEN [events |-> <<"log auto-submit", "log no submit button">>, ret |-> "false"]
    ELSE [events |-> <<"log auto-submit", "click PlaceBid">>, ret |-> "true"]

submitTailIgnoringAlert(page, dryRun) ==
    IF dryRun
    THEN [events |-> <<"log dry run">>, ret |-> "false"]
    ELSE IF ~page.submitButton
    THEN [events |-> <<"log auto-submit", "log no submit button">>, ret |-> "false"]
    ELSE [events |-> <<"log auto-submit", "click PlaceBid", "log submitted">>,
          ret |-> "true"]

submitTail(page, dryRun) ==
    IF dryRun
    THEN [events |-> <<"log dry run">>, ret |-> "false"]
    ELSE IF ~page.submitButton
    THEN [events |-> <<"log auto-submit", "log no submit button">>, ret |-> "false"]
    ELSE IF page.throwAt = "afterClick"
    THEN [events |-> <<"log auto-submit", "click PlaceBid", "log error">>,
          ret |-> "false"]
    ELSE IF page.errorAlert
    THEN [events |-> <<"log auto-submit", "click PlaceBid", "log bid failed">>,
          ret |-> "false"]
    ELSE [events |-> <<"log auto-submit", "click PlaceBid", "log submitted">>,
          ret |-> "true"]

\* Lines 14-232: the whole of submitBid for a bid carrying nMs milestones.
submitBid(page, nMs, dryRun) ==
    IF page.throwAt = "goto"
    THEN [events |-> <<"goto">>, ret |-> "threw"]
    ELSE IF page.throwAt = "check"
    THEN [events |-> <<"goto", "log error">>, ret |-> "false"]
    ELSE IF alreadyBid(page)
    THEN [events |-> <<"goto", "log already bid">>, ret |-> "false"]
    ELSE LET filled == <<"goto">> \o fillFields(page)
                       \o fillMilestones(0, nMs, 0, page)
         IN  IF page.throwAt = "screenshot"
             THEN [events |-> filled \o <<"log error">>, ret |-> "false"]
             ELSE LET tail == submitTail(page, dryRun)
                  IN  [events |-> filled \o <<"screenshot">> \o tail.events,
                       ret |-> tail.ret]

\* Lines 237-249: askConfirmation resolves true on "y" or "yes", any case.
askConfirmation(answer) == answer \in {"y", "Y", "yes", "YES", "Yes"}

(***************************************************************************)
(* bidder.ts: editBid.  The page:                                          *)
(*   editButton   which selector finds the Edit control, if any            *)
(*   msInputs     the milestone amount inputs' values in DOM order; 0 is   *)
(*                an input whose text parses to no positive number         *)
(*   throwAt      the awaited page operation that rejects, if any          *)
(* newAmount / originalAmount 0 stand for an absent (or zero) argument.    *)
(***************************************************************************)
EditPages ==
    [ editButton : {"primary", "fallback", "none"},
      amountInput : BOOLEAN,
      msInputs : SeqsUpTo(0..MaxMsAmount, MaxMilestones),
      descInput : BOOLEAN, saveButton : BOOLEAN, errorMessage : BOOLEAN,
      throwAt : {"none", "goto", "screenshot"} ]

\* Lines 346-347: one milestone rescaled, at least 1.
rescaleOne(v, newAmount, originalAmount) ==
    LET nv == Round(v * newAmount, originalAmount)
    IN  IF nv < 1 THEN 1 ELSE nv

RECURSIVE lastValid(_, _)
lastValid(ms, i) == IF i = 0 \/ ms[i] > 0 THEN i ELSE lastValid(ms, i - 1)

\* Lines 333-372: every valid input rescaled, then the discrepancy written into
\* the last input of the page.
rescaleMilestones(ms, newAmount, originalAmount) ==
    LET scaled == [i \in 1..Len(ms) |->
                      IF ms[i] > 0 THEN rescaleOne(ms[i], newAmount, originalAmount)
                      ELSE ms[i]]
        valid == {i \in 1..Len(ms) : ms[i] > 0}
        newValues == [i \in 1..Len(ms) |-> IF i \in valid THEN scaled[i] ELSE 0]
        total == SumSeq(newValues)
        lv == lastValid(ms, Len(ms))
        lastValue == IF lv = 0 THEN 0 ELSE scaled[lv] + (newAmount - total)
        adjust == valid # {} /\ total # newAmount /\ lastValue >= 1
    IN  [ values |-> IF adjust THEN [scaled EXCEPT ![Len(ms)] = lastValue]
                     ELSE scaled,
          fills |-> Cardinality(valid) + (IF adjust THEN 1 ELSE 0) ]

RECURSIVE repeatEvent(_, _)
repeatEvent(e, n) == IF n <= 0 THEN <<>> ELSE <<e>> \o repeatEvent(e, n - 1)

\* Lines 306-418: the live branch, after the Edit control was looked up.
editLive(page, newAmount, newProposal, originalAmount) ==
    LET amountEv == IF newAmount # 0 /\ page.amountInput
                    THEN <<"click amount", "fill amount">> ELSE <<>>
        doMs == newAmount # 0 /\ originalAmount # 0 /\ originalAmount > 0
                /\ Len(page.msInputs) > 0
        res == IF doMs
               THEN rescaleMilestones(page.msInputs, newAmount, originalAmount)
               ELSE [values |-> page.msInputs, fills |-> 0]
        msEv == repeatEvent("fill milestone", res.fills)
        propEv == IF newProposal /\ page.descInput
                  THEN <<"click proposal", "fill proposal">> ELSE <<>>
        done == <<"click Edit">> \o amountEv \o msEv \o propEv
    IN  IF page.throwAt = "screenshot"
        THEN [events |-> done \o <<"log error">>, ms |-> res.values, ret |-> "false"]
        ELSE IF ~page.saveButton
        THEN [events |-> done \o <<"screenshot", "log no save button">>,
              ms |-> res.values, ret |-> "false"]
        ELSE IF page.errorMessage
        THEN [events |-> done \o <<"screenshot", "click Save", "log error", "screenshot">>,
              ms |-> res.values, ret |-> "false"]
        ELSE [events |-> done \o <<"screenshot", "click Save", "log updated">>,
              ms |-> res.values, ret |-> "true"]

\* Lines 296-304: the dry-run branch only logs.
editDryRun(page, newAmount, newProposal, originalAmount) ==
    [events |-> <<"log dry run">>, ms |-> page.msInputs, ret |-> "true"]

\* Lines 257-424: the whole of editBid.
editBidWithoutLookup(page, newAmount, newProposal, dryRun, originalAmount) ==
    IF page.throwAt = "goto"
    THEN [events |-> <<"goto">>, ms |-> page.msInputs, ret |-> "threw"]
    ELSE LET r == IF dryRun
                  THEN editDryRun(page, newAmount, newProposal, originalAmount)
                  ELSE editLive(page, newAmount, newProposal, originalAmount)
         IN  [events |-> <<"goto">> \o r.events, ms |-> r.ms, ret |-> r.ret]

editBid(page, newAmount, newProposal, dryRun, originalAmount) ==
    IF page.throwAt = "goto"
    THEN [events |-> <<"goto">>, ms |-> page.msInputs, ret |-> "threw"]
    ELSE IF page.editButton = "none"
    THEN [events |-> <<"goto", "log no edit button">>, ms |-> page.msInputs,
          ret |-> "false"]
    ELSE LET r == IF dryRun
                  THEN editDryRun(page, newAmount, newProposal, originalAmount)
                  ELSE editLive(page, newAmount, newProposal, originalAmount)
         IN  [events |-> <<"goto">> \o r.events, ms |-> r.ms, ret |-> r.ret]

(***************************************************************************)
(* The bidder specification: one call of submitBid or editBid, with any    *)
(* arguments, against any page.                                            *)
(***************************************************************************)
BidCalls ==
    [ fn : {"submitBid"}, page : SubmitPages, nMs : 0..MaxMilestones,
      dryRun : BOOLEAN ]
    \cup
    [ fn : {"editBid"}, page : EditPages, newAmount : 0..MaxAmount,
      originalAmount : 0..MaxAmount, newProposal : BOOLEAN, dryRun : BOOLEAN ]

BidInit ==
    /\ bCall \in BidCalls
    /\ bEvents = <<>>
    /\ bMs = <<>>
    /\ bRet = <<>>

BidIdle == bCall = <<>> /\ bEvents = <<>> /\ bMs = <<>> /\ bRet = <<>>

SubmitBid ==
    /\ bRet = <<>>
    /\ bCall.fn = "submitBid"
    /\ LET r == submitBid(bCall.page, bCall.nMs, bCall.dryRun)
       IN  /\ bEvents' = r.events
           /\ bRet' = <<r.ret>>
    /\ UNCHANGED <<bCall, bMs, scoreVars, recVars, mainVars, scrapeVars, enrichVars, moreVars>>

EditBid ==
    /\ bRet = <<>>
    /\ bCall.fn = "editBid"
    /\ LET r == editBid(bCall.page, bCall.newAmount, bCall.newProposal,
                        bCall.dryRun, bCall.originalAmount)
       IN  /\ bEvents' = r.events
           /\ bMs' = r.ms
           /\ bRet' = <<r.ret>>
    /\ UNCHANGED <<bCall, scoreVars, recVars, mainVars, scrapeVars, enrichVars, moreVars>>

(***************************************************************************)
(* ai/recommender.ts: recommendProjects and analyzeProjectWithRetry;       *)
(* ai/proposal.ts: generateProposal.  One step per awaited operation: an   *)
(* LLM call, a backoff sleep, the delay between two projects.              *)
(*                                                                         *)
(* An LLM call either answers, or rejects with an error whose message may  *)
(* hold "429", "Too Many Requests" and a "retry in <seconds>" hint.        *)
(***************************************************************************)
DELAY_BETWEEN_REQUESTS_MS == 2000
MAX_RETRIES == 3
INITIAL_RETRY_DELAY_MS == 5000

LLMErrors ==
    [ ok : {FALSE}, has429 : BOOLEAN, tooMany : BOOLEAN, retryIn : {<<>>, <<7>>} ]

RecResponses ==
    [ score : {0, 65, 150}, bidAmount : {0}, bidPeriod : {0}, milestones : {<<>>} ]

LLMAnswers == [ ok : {TRUE}, parsed : RecResponses ]

RecBudgets ==
    { [min |-> 0, max |-> 0, parsed |-> FALSE],
      [min |-> 2, max |-> 3, parsed |-> TRUE] }

RECURSIVE Pow2(_)
Pow2(n) == IF n = 0 THEN 1 ELSE 2 * Pow2(n - 1)

\* Lines 100 (recommender.ts) / 35 (proposal.ts): the rate-limit test.
retryOnAnyError(err) == TRUE

isRateLimit(err) == err.has429 \/ err.tooMany

\* Lines 101-104 / 37-40: the hinted delay, else the doubling fallback.
retryDelayLinear(err, attempt) ==
    IF err.retryIn # <<>> THEN err.retryIn[1] * 1000
    ELSE INITIAL_RETRY_DELAY_MS * (attempt + 1)

retryDelay(err, attempt) ==
    IF err.retryIn # <<>> THEN err.retryIn[1] * 1000
    ELSE INITIAL_RETRY_DELAY_MS * Pow2(attempt)

\* Lines 48-60: the degraded score of a project whose analysis threw.
fallbackAtBudgetMax(project) ==
    [ score |-> 0,
      amount |-> OrElse(project.budget.max, 1000),
      period |-> deliveryDays,
      milestones |-> <<>>,
      fromLLM |-> FALSE ]

fallbackScore(project) ==
    [ score |-> 0,
      amount |-> OrElse(project.budget.min, 1000),
      period |-> deliveryDays,
      milestones |-> <<>>,
      fromLLM |-> FALSE ]

\* Line 64: scores.sort((a, b) => b.score - a.score), a stable sort.
RECURSIVE insertByScore(_, _)
insertByScore(x, sorted) ==
    IF sorted = <<>> THEN <<x>>
    ELSE IF x.score > Head(sorted).score THEN <<x>> \o sorted
    ELSE <<Head(sorted)>> \o insertByScore(x, Tail(sorted))

RECURSIVE sortByScore(_)
sortByScore(scores) ==
    IF scores = <<>> THEN <<>>
    ELSE insertByScore(scores[Len(scores)], sortByScore(SubSeq(scores, 1, Len(scores) - 1)))

\* An event of the retry loop: an LLM call ("call ok", or "call error" with what
\* the error message holds) or a backoff sleep of ms milliseconds; after the
\* loop, the "delay" recommendProjects waits before the next project.
Event(kind, ms, has429, tooMany) ==
    [ev |-> kind, ms |-> ms, has429 |-> has429, tooMany |-> tooMany]

RecInit ==
    /\ rFn \in {"recommend", "proposal"}
    /\ rProjects \in UNION {[1..n -> [id : {0}, budget : RecBudgets]] :
                              n \in (IF rFn = "proposal" THEN {1} ELSE 1..MaxProjects)}
    /\ rIdx = 1
    /\ rAttempt = 0
    /\ rPc = "call"
    /\ rDelay = 0
    /\ rInv = <<>>
    /\ rInvResult = "running"
    /\ rScores = <<>>

RecIdle ==
    /\ rFn = "" /\ rProjects = <<>> /\ rIdx = 0 /\ rAttempt = 0 /\ rPc = ""
    /\ rDelay = 0 /\ rInv = <<>> /\ rInvResult = "" /\ rScores = <<>>

\* The events of the invocation this call belongs to: a first attempt opens one.
InvSoFar == IF rAttempt = 0 THEN <<>> ELSE rInv

\* recommendProjects after the retry loop ended for project rIdx with `score`
\* pushed: the catch block (no delay) or the try block (delay unless last).
AfterPush(score, threw) ==
    /\ rScores' = Append(rScores, [score EXCEPT !.id = rIdx])
    /\ IF threw
       THEN IF rIdx < Len(rProjects)
            THEN rPc' = "call" /\ rIdx' = rIdx + 1
            ELSE rPc' = "sort" /\ rIdx' = rIdx
       ELSE IF rIdx < Len(rProjects)
            THEN rPc' = "delay" /\ rIdx' = rIdx
            ELSE rPc' = "sort" /\ rIdx' = rIdx

\* The retry loop gave up with an error: recommendProjects catches it and
\* substitutes the fallback; generateProposal lets a thrown error escape.
Throws ==
    /\ rInvResult' = "threw"
    /\ rAttempt' = 0
    /\ IF rFn = "recommend"
       THEN AfterPush([id |-> rIdx] @@ fallbackScore(rProjects[rIdx]), TRUE)
       ELSE rPc' = "threw" /\ UNCHANGED <<rIdx, rScores>>

\* model.generateContent answers and the text parses.
CallAnswers ==
    /\ rPc = "call"
    /\ \E a \in LLMAnswers :
         /\ rInv' = Append(InvSoFar, Event("call ok", 0, FALSE, FALSE))
         /\ rInvResult' = "returned"
         /\ rAttempt' = 0
         /\ rDelay' = 0
         /\ IF rFn = "recommend"
            THEN AfterPush([id |-> rIdx] @@ analyzeProject(rProjects[rIdx], a.parsed),
                           FALSE)
            ELSE rPc' = "done" /\ UNCHANGED <<rIdx, rScores>>
    /\ UNCHANGED <<rFn, rProjects, scoreVars, bidVars, mainVars, scrapeVars, enrichVars, moreVars>>

\* The call rejects: a rate-limit error schedules a backoff sleep, any other
\* error is rethrown at once.
CallFails ==
    /\ rPc = "call"
    /\ \E err \in LLMErrors :
         /\ rInv' = Append(InvSoFar, Event("call error", 0, err.has429, err.tooMany))
         /\ IF isRateLimit(err)
            THEN /\ rPc' = "sleep"
                 /\ rDelay' = retryDelay(err, rAttempt)
                 /\ rInvResult' = "running"
                 /\ UNCHANGED <<rAttempt, rIdx, rScores>>
            ELSE /\ rDelay' = 0
                 /\ Throws
    /\ UNCHANGED <<rFn, rProjects, scoreVars, bidVars, mainVars, scrapeVars, enrichVars, moreVars>>

\* await sleep(retryDelay), then the loop's attempt++ and test; when the loop
\* is exhausted analyzeProjectWithRetry throws lastError and generateProposal
\* returns the template.
BackoffSleep ==
    /\ rPc = "sleep"
    /\ rInv' = Append(rInv, Event("sleep", rDelay, FALSE, FALSE))
    /\ rDelay' = 0
    /\ IF rAttempt + 1 < MAX_RETRIES
       THEN /\ rAttempt' = rAttempt + 1
            /\ rPc' = "call"
            /\ UNCHANGED <<rInvResult, rIdx, rScores>>
       ELSE IF rFn = "recommend"
            THEN Throws
            ELSE /\ rInvResult' = "template"
                 /\ rAttempt' = 0
                 /\ rPc' = "done"
                 /\ UNCHANGED <<rIdx, rScores>>
    /\ UNCHANGED <<rFn, rProjects, scoreVars, bidVars, mainVars, scrapeVars, enrichVars, moreVars>>

\* await sleep(DELAY_BETWEEN_REQUESTS_MS) after a project that was scored.
InterRequestDelay ==
    /\ rPc = "delay"
    /\ rInv' = Append(rInv, Event("delay", DELAY_BETWEEN_REQUESTS_MS, FALSE, FALSE))
    /\ rPc' = "call"
    /\ rIdx' = rIdx + 1
    /\ UNCHANGED <<rFn, rProjects, rAttempt, rDelay, rInvResult, rScores,
                   scoreVars, bidVars, mainVars, scrapeVars, enrichVars, moreVars>>

\* scores.sort(...) and return.
SortScores ==
    /\ rPc = "sort"
    /\ rScores' = sortByScore(rScores)
    /\ rPc' = "done"
    /\ UNCHANGED <<rFn, rProjects, rIdx, rAttempt, rDelay, rInv, rInvResult,
                   scoreVars, bidVars, mainVars, scrapeVars, enrichVars, moreVars>>


(***************************************************************************)
(* index.ts: main.  One step per awaited collaborator call; any of them    *)
(* may reject, which the try block's catch logs before the finally block   *)
(* runs.  The log keeps which collaborator operation ran for which item.   *)
(***************************************************************************)
minScore == 65

\* A collaborator operation main awaited, and whether it rejected.
Op(name, id) == [op |-> name, id |-> id, threw |-> FALSE]

MainConfigs ==
    [ dryRun : BOOLEAN, improveBidsMode : BOOLEAN, skipDetails : BOOLEAN,
      useTemplate : BOOLEAN ]

\* What the insights page may show for one bid.
Insights ==
    [ bidRank : {0, 1, 3, 4}, totalBids : {0, 4}, yourBid : {100} ]

\* What recommendProjects may score a project: 0 is also the fallback score.
MainScores == {0, 65, 90}

\* A project's outcome in recommendProjects: scored by the LLM, or the
\* fallback of the catch block, whose score is 0.
ScoredOutcomes ==
    {[score |-> sc, fallback |-> FALSE] : sc \in MainScores}
    \cup {[score |-> 0, fallback |-> TRUE]}

\* Array.prototype.slice(0, end): a negative end counts from the end.
slice0(seq, end) ==
    LET n == Len(seq)
        e == IF end < 0 THEN (IF n + end < 0 THEN 0 ELSE n + end)
             ELSE (IF end > n THEN n ELSE end)
    IN  SubSeq(seq, 1, e)

\* recommender.ts lines 280-282: filterByScore keeps score >= minScore, in order.
keepAll(scores, min) == scores

RECURSIVE filterByScore(_, _)
filterByScore(scores, min) ==
    IF scores = <<>> THEN <<>>
    ELSE IF Head(scores).score >= min
         THEN <<Head(scores)>> \o filterByScore(Tail(scores), min)
         ELSE filterByScore(Tail(scores), min)

\* Lines 285-289: the bids improve mode edits.
unknownIsPoor(bid) ==
    IF bid.bidRank = 0 \/ bid.totalBids = 0 THEN TRUE
    ELSE bid.bidRank * 100 > 50 * bid.totalBids

isPoorBid(bid) ==
    IF bid.bidRank = 0 \/ bid.totalBids = 0 THEN FALSE
    ELSE bid.bidRank * 100 > 50 * bid.totalBids

RECURSIVE filterPoor(_)
filterPoor(bids) ==
    IF bids = <<>> THEN <<>>
    ELSE IF isPoorBid(Head(bids)) THEN <<Head(bids)>> \o filterPoor(Tail(bids))
         ELSE filterPoor(Tail(bids))

\* Line 257: the hard stop on an empty bid allowance.
stopsWhenImproving(remaining, improveBidsMode) == remaining = 0 /\ improveBidsMode

noBidsRemaining(remaining, improveBidsMode) == remaining = 0 /\ ~improveBidsMode

\* Line 395: projectsToBid.
projectsToBid(recommended, remaining) == slice0(recommended, remaining)

MainInit ==
    /\ mCfg \in MainConfigs
    /\ mPc = "init"
    /\ mBrowser = "none"
    /\ mRemaining = <<>>
    /\ mPoor = <<>>
    /\ mScores = <<>>
    /\ mRecommended = <<>>
    /\ mToBid = <<>>
    /\ mIdx = 0
    /\ mLog = <<>>

MainIdle ==
    /\ mCfg = <<>> /\ mPc = "" /\ mBrowser = "" /\ mRemaining = <<>> /\ mPoor = <<>>
    /\ mScores = <<>> /\ mRecommended = <<>> /\ mToBid = <<>> /\ mIdx = 0 /\ mLog = <<>>

NotMain == <<scoreVars, bidVars, recVars, scrapeVars, enrichVars, moreVars>>

\* An awaited call rejected: catch logs the error, finally runs.
Rejected(name, id) ==
    /\ mLog' = Append(mLog, [Op(name, id) EXCEPT !.threw = TRUE])
    /\ mPc' = "save"

\* browserManager.init(headless)
BrowserInit ==
    /\ mPc = "init"
    /\ \/ /\ mLog' = Append(mLog, Op("init", 0))
          /\ mBrowser' = "open"
          /\ mPc' = "login"
       \/ Rejected("init", 0) /\ UNCHANGED mBrowser
    /\ UNCHANGED <<mCfg, mRemaining, mPoor, mScores, mRecommended, mToBid, mIdx, NotMain>>

\* isLoggedIn(), then login() when it says no.
Login ==
    /\ mPc = "login"
    /\ \/ mLog' = Append(mLog, Op("login", 0)) /\ mPc' = "remaining"
       \/ Rejected("login", 0)
    /\ UNCHANGED <<mCfg, mBrowser, mRemaining, mPoor, mScores, mRecommended, mToBid, mIdx, NotMain>>

\* getRemainingBids(): the count the dashboard shows, or -1 when it shows none;
\* then the hard stop of lines 257-265.
CheckRemaining ==
    /\ mPc = "remaining"
    /\ \/ \E r \in (-1)..MaxRemaining :
            /\ mRemaining' = <<r>>
            /\ mLog' = Append(mLog, Op("getRemainingBids", 0))
            /\ mPc' = IF noBidsRemaining(r, mCfg.improveBidsMode) THEN "save"
                      ELSE "insights"
       \/ Rejected("getRemainingBids", 0) /\ UNCHANGED mRemaining
    /\ UNCHANGED <<mCfg, mBrowser, mPoor, mScores, mRecommended, mToBid, mIdx, NotMain>>

\* getBidInsights(); in improve mode the poor bids are picked (lines 285-294).
FetchInsights ==
    /\ mPc = "insights"
    /\ \/ \E bids \in SeqsUpTo(Insights, MaxBids) :
            /\ mLog' = Append(mLog, Op("getBidInsights", 0))
            /\ IF mCfg.improveBidsMode
               THEN /\ mPoor' = filterPoor(bids)
                    /\ mIdx' = 1
                    /\ mPc' = IF filterPoor(bids) = <<>> THEN "save" ELSE "suggest"
               ELSE /\ mPc' = "scrape"
                    /\ UNCHANGED <<mPoor, mIdx>>
       \/ Rejected("getBidInsights", 0) /\ UNCHANGED <<mPoor, mIdx>>
    /\ UNCHANGED <<mCfg, mBrowser, mRemaining, mScores, mRecommended, mToBid, NotMain>>

\* Lines 306-313: suggestBidEdit for poor bid mIdx; it catches its own errors.
SuggestEdit ==
    /\ mPc = "suggest"
    /\ mLog' = Append(mLog, Op("suggestBidEdit", mIdx))
    /\ mPc' = "edit"
    /\ UNCHANGED <<mCfg, mBrowser, mRemaining, mPoor, mScores, mRecommended, mToBid, mIdx, NotMain>>

\* Lines 324-333: editBid for poor bid mIdx, then the next one.
EditPoorBid ==
    /\ mPc = "edit"
    /\ \/ /\ mLog' = Append(mLog, Op("editBid", mIdx))
          /\ IF mIdx < Len(mPoor)
             THEN mIdx' = mIdx + 1 /\ mPc' = "suggest"
             ELSE mIdx' = mIdx /\ mPc' = (IF mCfg.dryRun THEN "save" ELSE "recheck")
       \/ Rejected("editBid", mIdx) /\ UNCHANGED mIdx
    /\ UNCHANGED <<mCfg, mBrowser, mRemaining, mPoor, mScores, mRecommended, mToBid, NotMain>>

\* Lines 339-360: the rankings are read again after live edits.
Recheck ==
    /\ mPc = "recheck"
    /\ mLog' = Append(mLog, Op("getBidInsights", 0))
    /\ mPc' = "save"
    /\ UNCHANGED <<mCfg, mBrowser, mRemaining, mPoor, mScores, mRecommended, mToBid, mIdx, NotMain>>

\* Lines 370-375: scrapeProjects; no project ends the run.
Scrape ==
    /\ mPc = "scrape"
    /\ \/ \E n \in 0..MaxProjects :
            /\ mLog' = Append(mLog, Op("scrapeProjects", n))
            /\ mIdx' = n
            /\ mPc' = IF n = 0 THEN "save"
                      ELSE IF mCfg.skipDetails THEN "recommend" ELSE "enrich"
       \/ Rejected("scrapeProjects", 0) /\ UNCHANGED mIdx
    /\ UNCHANGED <<mCfg, mBrowser, mRemaining, mPoor, mScores, mRecommended, mToBid, NotMain>>

\* Lines 378-380: enrichProjectsWithDetails keeps the list's length.
Enrich ==
    /\ mPc = "enrich"
    /\ \/ mLog' = Append(mLog, Op("enrichProjectsWithDetails", mIdx)) /\ mPc' = "recommend"
       \/ Rejected("enrichProjectsWithDetails", mIdx)
    /\ UNCHANGED <<mCfg, mBrowser, mRemaining, mPoor, mScores, mRecommended, mToBid, mIdx, NotMain>>

\* Lines 383-402: recommendProjects (sorted), filterByScore, projectsToBid.
Recommend ==
    /\ mPc = "recommend"
    /\ \E sc \in [1..mIdx -> ScoredOutcomes] :
         LET scores == sortByScore([i \in 1..mIdx |->
                          [id |-> i, score |-> sc[i].score, fallback |-> sc[i].fallback]])
             recommended == filterByScore(scores, minScore)
             toBid == projectsToBid(recommended, mRemaining[1])
         IN  /\ mLog' = Append(mLog, Op("recommendProjects", mIdx))
             /\ mScores' = scores
             /\ mRecommended' = recommended
             /\ IF recommended = <<>>
                THEN mToBid' = <<>> /\ mPc' = "save" /\ mIdx' = 0
                ELSE /\ mToBid' = toBid
                     /\ mIdx' = 1
                     /\ mPc' = IF toBid = <<>> THEN "save" ELSE "proposal"
    /\ UNCHANGED <<mCfg, mBrowser, mRemaining, mPoor, NotMain>>

\* Lines 423-429: the proposal; generateProposal rethrows a non-rate-limit error.
Proposal ==
    /\ mPc = "proposal"
    /\ \/ mLog' = Append(mLog, Op("proposal", mToBid[mIdx].id)) /\ mPc' = "submit"
       \/ /\ ~mCfg.useTemplate
          /\ Rejected("proposal", mToBid[mIdx].id)
    /\ UNCHANGED <<mCfg, mBrowser, mRemaining, mPoor, mScores, mRecommended, mToBid, mIdx, NotMain>>

\* Lines 450-457: submitBid for the project, then the next one.
Submit ==
    /\ mPc = "submit"
    /\ \/ /\ mLog' = Append(mLog, Op("submitBid", mToBid[mIdx].id))
          /\ IF mIdx < Len(mToBid)
             THEN mIdx' = mIdx + 1 /\ mPc' = "proposal"
             ELSE mIdx' = mIdx /\ mPc' = "save"
       \/ Rejected("submitBid", mToBid[mIdx].id) /\ UNCHANGED mIdx
    /\ UNCHANGED <<mCfg, mBrowser, mRemaining, mPoor, mScores, mRecommended, mToBid, NotMain>>

\* Line 466, browser.ts 58-69: saveSession; a rejection leaves the finally block.
SaveSession ==
    /\ mPc = "save"
    /\ mLog' = Append(mLog, Op("saveSession", 0))
    /\ \/ mPc' = "close"
       \/ mBrowser = "open" /\ mPc' = "exit"
    /\ UNCHANGED <<mCfg, mBrowser, mRemaining, mPoor, mScores, mRecommended, mToBid, mIdx, NotMain>>

\* Line 467, browser.ts 236-244: close.
CloseBrowser ==
    /\ mPc = "close"
    /\ mLog' = Append(mLog, Op("close", 0))
    /\ mBrowser' = IF mBrowser = "open" THEN "closed" ELSE mBrowser
    /\ mPc' = "exit"
    /\ UNCHANGED <<mCfg, mRemaining, mPoor, mScores, mRecommended, mToBid, mIdx, NotMain>>


(***************************************************************************)
(* scraper.ts: scrapeProjectsFromPage and scrapeProjects.  A search page   *)
(* is the list of its project anchors in DOM order.  An anchor is what the *)
(* code reads of it: the id its href holds (<<>> when the href has no      *)
(* second path segment) and its trimmed title text ("" when the title      *)
(* element is missing or blank).  The fallback id proj_<index> is written  *)
(* as the negative number -(index + 1).                                    *)
(***************************************************************************)
projectsPerPage == 20

Anchors == [ urlId : {<<>>, <<1>>}, title : {"", "A", "B"} ]

\* Lines 100-101: the id taken from the href, else proj_<index>.
anchorId(a, index) == IF a.urlId # <<>> THEN a.urlId[1] ELSE -(index + 1)

\* Lines 93-148: the loop over the anchors from `index` on; it breaks at
\* index >= max and pushes a record only when the title is not empty.
RECURSIVE scrapeFrom(_, _, _)
scrapeFrom(anchors, index, max) ==
    IF index >= Len(anchors) \/ index >= max THEN <<>>
    ELSE LET a == anchors[index + 1]
             rest == scrapeFrom(anchors, index + 1, max)
         IN  IF a.title # ""
             THEN <<[id |-> anchorId(a, index), title |-> a.title]>> \o rest
             ELSE rest

scrapeWholePage(max, anchors) == scrapeFrom(anchors, 0, Len(anchors))

scrapeProjectsFromPage(max, anchors) == scrapeFrom(anchors, 0, max)

\* Lines 252-257: a scraped project joins allRawProjects unless its id is there.
mergeAll(all, pageProjects) == all \o pageProjects

RECURSIVE mergeNew(_, _)
mergeNew(all, pageProjects) ==
    IF pageProjects = <<>> THEN all
    ELSE LET proj == Head(pageProjects)
         IN  mergeNew(IF \E i \in DOMAIN all : all[i].id = proj.id
                      THEN all ELSE Append(all, proj),
                      Tail(pageProjects))

\* Line 230: the loop leaves once enough projects are collected.
neverEnough(all, maxProjects) == FALSE

enoughProjects(all, maxProjects) == Len(all) >= maxProjects

\* Lines 159-205: convertRawProjects copies id and title (the budget is
\* convertRawBudget's part).
convertRawProjects(rawProjects) ==
    [i \in DOMAIN rawProjects |->
        [id |-> rawProjects[i].id, title |-> rawProjects[i].title]]

ScrapeInit ==
    /\ pMaxProjects \in 0..MaxProjects
    /\ pMaxPages \in 0..MaxPages
    /\ pPageNum = 1
    /\ pAnchors = <<>>
    /\ pPrev = <<>>
    /\ pAll = <<>>
    /\ pNav = <<>>
    /\ pPc = "loop"
    /\ pResult = <<>>

ScrapeIdle ==
    /\ pMaxProjects = 0 /\ pMaxPages = 0 /\ pPageNum = 0 /\ pAnchors = <<>>
    /\ pPrev = <<>> /\ pAll = <<>> /\ pNav = <<>> /\ pPc = "" /\ pResult = <<>>

NotScrape == <<scoreVars, bidVars, recVars, mainVars, enrichVars, moreVars>>

\* Lines 228-263: one turn of the page loop: page.goto, scrapeProjectsFromPage,
\* the merge without duplicates, pageNum++.
FetchPage ==
    /\ pPc = "loop"
    /\ pPageNum <= pMaxPages
    /\ ~enoughProjects(pAll, pMaxProjects)
    /\ \E anchors \in SeqsUpTo(Anchors, MaxAnchors) :
         /\ pAnchors' = anchors
         /\ pAll' = mergeNew(pAll, scrapeProjectsFromPage(projectsPerPage, anchors))
    /\ pPrev' = pAll
    /\ pNav' = Append(pNav, Len(pAll))
    /\ pPageNum' = pPageNum + 1
    /\ UNCHANGED <<pMaxProjects, pMaxPages, pPc, pResult, NotScrape>>

\* Line 238: page.goto rejects (timeout, network) and scrapeProjects with it.
GotoFails ==
    /\ pPc = "loop"
    /\ pPageNum <= pMaxPages
    /\ ~enoughProjects(pAll, pMaxProjects)
    /\ pNav' = Append(pNav, Len(pAll))
    /\ pPc' = "threw"
    /\ UNCHANGED <<pMaxProjects, pMaxPages, pPageNum, pAnchors, pPrev, pAll, pResult,
                   NotScrape>>

\* Lines 228/230 (loop exit) and 266-289: slice, convert, return.
ReturnProjects ==
    /\ pPc = "loop"
    /\ pPageNum > pMaxPages \/ enoughProjects(pAll, pMaxProjects)
    /\ pResult' = << convertRawProjects(slice0(pAll, pMaxProjects)) >>
    /\ pPc' = "done"
    /\ UNCHANGED <<pMaxProjects, pMaxPages, pPageNum, pAnchors, pPrev, pAll, pNav,
                   NotScrape>>


(***************************************************************************)
(* scraper.ts: enrichProjectsWithDetails.  A project is its id and the     *)
(* details getProjectDetails merged into it (<<>> before enrichment).      *)
(***************************************************************************)
EnrichProjects == [ id : 1..(MaxProjects + 1), details : {<<>>} ]

\* Lines 452-462: { ...project, fullDescription, clientInfo, competitorBids, ... }
getProjectDetails(project) == [project EXCEPT !.details = <<"details">>]

\* Line 480: only the first maxToEnrich projects are fetched (i counts from 0).
enrichAll(i, maxToEnrich) == TRUE

withinMaxToEnrich(i, maxToEnrich) == i < maxToEnrich

EnrichInit ==
    /\ eProjects \in SeqsUpTo(EnrichProjects, MaxProjects)
    /\ eMax \in 0..(MaxProjects + 1)
    /\ eFetch = <<>>
    /\ eOut = <<>>
    /\ ePc = "loop"

EnrichIdle ==
    eProjects = <<>> /\ eMax = 0 /\ eFetch = <<>> /\ eOut = <<>> /\ ePc = ""

NotEnrich == <<scoreVars, bidVars, recVars, mainVars, scrapeVars, moreVars>>

\* Lines 480-493: getProjectDetails answered for project i.
EnrichFetched ==
    /\ ePc = "loop"
    /\ Len(eFetch) < Len(eProjects)
    /\ withinMaxToEnrich(Len(eFetch), eMax)
    /\ eOut' = Append(eOut, getProjectDetails(eProjects[Len(eFetch) + 1]))
    /\ eFetch' = Append(eFetch, "ok")
    /\ UNCHANGED <<eProjects, eMax, ePc, NotEnrich>>

\* Lines 494-497: getProjectDetails threw; the original project is kept.
EnrichFailed ==
    /\ ePc = "loop"
    /\ Len(eFetch) < Len(eProjects)
    /\ withinMaxToEnrich(Len(eFetch), eMax)
    /\ eOut' = Append(eOut, eProjects[Len(eFetch) + 1])
    /\ eFetch' = Append(eFetch, "threw")
    /\ UNCHANGED <<eProjects, eMax, ePc, NotEnrich>>

\* Lines 498-500: past maxToEnrich the project is passed through.
EnrichSkipped ==
    /\ ePc = "loop"
    /\ Len(eFetch) < Len(eProjects)
    /\ ~withinMaxToEnrich(Len(eFetch), eMax)
    /\ eOut' = Append(eOut, eProjects[Len(eFetch) + 1])
    /\ eFetch' = Append(eFetch, "skipped")
    /\ UNCHANGED <<eProjects, eMax, ePc, NotEnrich>>

\* Lines 503-505: the loop is over, enrichedProjects is returned.
EnrichReturn ==
    /\ ePc = "loop"
    /\ Len(eFetch) = Len(eProjects)
    /\ ePc' = "done"
    /\ UNCHANGED <<eProjects, eMax, eFetch, eOut, NotEnrich>>


(***************************************************************************)
(* scraper.ts: convertRawProjects on one card's budget text.  A budget     *)
(* text is  [sym1] lo <sep> [sym2] hi [code] [per hour]  or, with no       *)
(* separator, a string the range pattern finds nothing in.  Symbols are    *)
(* named: "dollar" $, "rupee", "euro", "pound".                            *)
(*                                                                         *)
(* The file's symbol class [\$...] holds "$" and the characters of the     *)
(* mis-decoded forms of the rupee, euro and pound signs; of the four       *)
(* currency signs only "$" and the pound sign are among them.  Its         *)
(* separator class holds the hyphen and the characters of the mis-decoded  *)
(* en dash, not the en dash.                                               *)
(***************************************************************************)
Symbols == {"", "dollar", "rupee", "euro", "pound"}

SymbolClass == {"dollar", "pound"}

SeparatorClass == {"hyphen"}

BudgetTexts ==
    [ sym1 : Symbols, amounts : {<<500, 1000>>, <<10000, 20000>>},
      sep : {"hyphen", "endash", "none"}, sym2 : Symbols,
      code : {"", "USD", "INR"}, perHour : BOOLEAN ]

\* The word that follows the second figure: the code, else "per" of "per hour".
wordAfter(text) ==
    IF text.code # "" THEN text.code ELSE IF text.perHour THEN "per" ELSE ""

\* Line 161: the range pattern.  It needs a separator of the class between
\* the figures and nothing but a symbol of the class before the second one.
budgetMatch(text) ==
    IF text.sep \in SeparatorClass /\ (text.sym2 = "" \/ text.sym2 \in SymbolClass)
    THEN [ matched |-> TRUE,
           g1 |-> IF text.sym1 \in SymbolClass THEN text.sym1 ELSE "",
           lo |-> text.amounts[1],
           g3 |-> text.sym2,
           hi |-> text.amounts[2],
           g5 |-> wordAfter(text) ]
    ELSE [ matched |-> FALSE, g1 |-> "", lo |-> 0, g3 |-> "", hi |-> 0, g5 |-> "" ]

toUpperCase(word) == IF word = "per" THEN "PER" ELSE word

\* Lines 27-39: of the map's keys only "$" is a symbol the pattern can hand
\* over (the others are two-letter or mis-decoded strings); the rest is USD.
currencyMap == [sym \in {"dollar"} |-> "USD"]

detectCurrency(symbol) ==
    IF symbol \in DOMAIN currencyMap THEN currencyMap[symbol] ELSE "USD"

\* Lines 159-196: the budget of the converted Project.
convertRawCard(text) ==
    LET m == budgetMatch(text)
        b == convertRawBudget([matched |-> m.matched, lo |-> m.lo, hi |-> m.hi])
        symbol == IF m.g1 # "" THEN m.g1 ELSE IF m.g3 # "" THEN m.g3 ELSE "dollar"
    IN  [ min |-> b.min, max |-> b.max, parsed |-> b.parsed,
          currency |-> IF ~m.matched THEN "USD"
                       ELSE IF m.g5 # "" THEN toUpperCase(m.g5)
                       ELSE detectCurrency(symbol),
          isHourly |-> text.perHour ]

ConvInit == cText \in {<<t>> : t \in BudgetTexts} /\ cProject = <<>>

ConvIdle == cText = <<>> /\ cProject = <<>>

ConvertCard ==
    /\ cText # <<>>
    /\ cProject = <<>>
    /\ cProject' = << convertRawCard(cText[1]) >>
    /\ UNCHANGED <<cText, scoreVars, bidVars, recVars, mainVars, scrapeVars, enrichVars,
                   suggestVars, insightVars>>


(***************************************************************************)
(* ai/recommender.ts: suggestBidEdit.  The LLM either fails the call,      *)
(* answers text with no JSON object, with an object that does not parse,   *)
(* or with an object; the object's suggestedAmount is missing (<<>>) or a  *)
(* number given in half units, its strategy missing ("") or a label.  The  *)
(* returned suggestedAmount is <<n>>, or <<>> for NaN.                     *)
(***************************************************************************)
LLMSuggestions ==
    [ kind : {"call fails", "no JSON", "invalid JSON"}, amount : {<<>>}, strategy : {""} ]
    \cup
    [ kind : {"object"}, amount : {<<>>, <<0>>, <<17>>, <<180>>, <<240>>},
      strategy : {"", "aggressive", "conservative"} ]

SuggestCalls ==
    [ currentBid : {0, 10, 100}, bidRank : 0..4, totalBids : {0, 4},
      hasKey : BOOLEAN, llm : LLMSuggestions ]

\* Line 305: positionPercent > pct, with positionPercent = 100 when totalBids = 0.
positionOver(bidRank, totalBids, pct) ==
    IF totalBids > 0 THEN bidRank * 100 > pct * totalBids ELSE 100 > pct

\* Lines 309 / 360: the reduction, in percent.
flatReduction(bidRank, totalBids) == 5

reduction(bidRank, totalBids) ==
    IF positionOver(bidRank, totalBids, 75) THEN 15
    ELSE IF positionOver(bidRank, totalBids, 50) THEN 10 ELSE 5

\* Lines 315 / 366: the strategy label.
strategyOf(r) ==
    IF r >= 15 THEN "aggressive" ELSE IF r >= 10 THEN "moderate" ELSE "conservative"

\* Lines 309-316 / 360-367: the deterministic suggestion.
ruleTable(currentBid, bidRank, totalBids) ==
    LET r == reduction(bidRank, totalBids)
    IN  [ originalAmount |-> currentBid,
          suggestedAmount |-> << Round(currentBid * (100 - r), 100) >>,
          strategy |-> strategyOf(r) ]

\* Lines 296-368.
suggestBidEdit(call) ==
    IF ~call.hasKey
    THEN ruleTable(call.currentBid, call.bidRank, call.totalBids)
    ELSE IF call.llm.kind = "object"
    THEN [ originalAmount |-> call.currentBid,
           suggestedAmount |-> IF call.llm.amount = <<>> THEN <<>>
                               ELSE << Round(call.llm.amount[1], 2) >>,
           strategy |-> IF call.llm.strategy = "" THEN "moderate"
                        ELSE call.llm.strategy ]
    ELSE ruleTable(call.currentBid, call.bidRank, call.totalBids)

SuggestInit == gCall \in {<<c>> : c \in SuggestCalls} /\ gOut = <<>>

SuggestIdle == gCall = <<>> /\ gOut = <<>>

SuggestBidEdit ==
    /\ gCall # <<>>
    /\ gOut = <<>>
    /\ gOut' = << suggestBidEdit(gCall[1]) >>
    /\ UNCHANGED <<gCall, scoreVars, bidVars, recVars, mainVars, scrapeVars, enrichVars,
                   convVars, insightVars>>


(***************************************************************************)
(* scraper.ts: the summary getBidInsights prints, and index.ts: the edit   *)
(* loop of improve mode over the same insights.                            *)
(***************************************************************************)
unknownPosition(bid) == bid.bidRank = 0 \/ bid.totalBids = 0

\* Lines 719-733: the three display buckets.
goodPosition(bid) ==
    IF unknownPosition(bid) THEN FALSE ELSE ~positionOver(bid.bidRank, bid.totalBids, 25)

okPosition(bid) ==
    IF unknownPosition(bid) THEN FALSE
    ELSE positionOver(bid.bidRank, bid.totalBids, 25)
         /\ ~positionOver(bid.bidRank, bid.totalBids, 50)

poorPosition(bid) ==
    IF unknownPosition(bid) THEN TRUE ELSE positionOver(bid.bidRank, bid.totalBids, 50)

InsightInit ==
    /\ iBids \in SeqsUpTo(Insights, MaxBids)
    /\ iBuckets = <<>>
    /\ iCalls = <<>>
    /\ iPc = "fetch"

InsightIdle == iBids = <<>> /\ iBuckets = <<>> /\ iCalls = <<>> /\ iPc = ""

NotInsight ==
    <<scoreVars, bidVars, recVars, mainVars, scrapeVars, enrichVars, convVars, suggestVars>>

\* scraper.ts lines 709-733: getBidInsights sorts what it read into buckets.
GetBidInsights ==
    /\ iPc = "fetch"
    /\ iBuckets' = << [ good |-> SelectSeq(iBids, goodPosition),
                        ok |-> SelectSeq(iBids, okPosition),
                        poor |-> SelectSeq(iBids, poorPosition) ] >>
    /\ iPc' = "improve"
    /\ UNCHANGED <<iBids, iCalls, NotInsight>>

\* index.ts lines 298-334: one turn of the loop over poorBids.
ImprovePoorBid ==
    /\ iPc = "improve"
    /\ Len(iCalls) < 2 * Len(filterPoor(iBids))
    /\ LET bid == filterPoor(iBids)[(Len(iCalls) \div 2) + 1]
       IN  iCalls' = iCalls \o << [op |-> "suggestBidEdit", bid |-> bid],
                                  [op |-> "editBid", bid |-> bid] >>
    /\ UNCHANGED <<iBids, iBuckets, iPc, NotInsight>>

\* index.ts lines 291-294 and 336-365: no poor bid (left), improve mode returns.
ImproveDone ==
    /\ iPc = "improve"
    /\ Len(iCalls) = 2 * Len(filterPoor(iBids))
    /\ iPc' = "done"
    /\ UNCHANGED <<iBids, iBuckets, iCalls, NotInsight>>


(***************************************************************************)
(* Specifications.                                                         *)
(***************************************************************************)
MoreIdle == ConvIdle /\ SuggestIdle /\ InsightIdle
OthersIdle == ScoreIdle /\ BidIdle /\ RecIdle /\ MainIdle /\ ScrapeIdle /\ EnrichIdle

InitScore == ScoreInit /\ BidIdle /\ RecIdle /\ MainIdle /\ ScrapeIdle /\ EnrichIdle /\ MoreIdle
NextScore == Convert \/ Analyze
SpecScore == InitScore /\ [][NextScore]_vars

InitBid == BidInit /\ ScoreIdle /\ RecIdle /\ MainIdle /\ ScrapeIdle /\ EnrichIdle /\ MoreIdle
NextBid == SubmitBid \/ EditBid
SpecBid == InitBid /\ [][NextBid]_vars

InitRec == RecInit /\ ScoreIdle /\ BidIdle /\ MainIdle /\ ScrapeIdle /\ EnrichIdle /\ MoreIdle
NextRec == CallAnswers \/ CallFails \/ BackoffSleep \/ InterRequestDelay \/ SortScores
SpecRec == InitRec /\ [][NextRec]_vars

InitScrape == ScrapeInit /\ ScoreIdle /\ BidIdle /\ RecIdle /\ MainIdle /\ EnrichIdle /\ MoreIdle
NextScrape == FetchPage \/ GotoFails \/ ReturnProjects
SpecScrape == InitScrape /\ [][NextScrape]_vars

InitEnrich == EnrichInit /\ ScoreIdle /\ BidIdle /\ RecIdle /\ MainIdle /\ ScrapeIdle /\ MoreIdle
NextEnrich == EnrichFetched \/ EnrichFailed \/ EnrichSkipped \/ EnrichReturn
SpecEnrich == InitEnrich /\ [][NextEnrich]_vars

InitConv == ConvInit /\ SuggestIdle /\ InsightIdle /\ OthersIdle
NextConv == ConvertCard
SpecConv == InitConv /\ [][NextConv]_vars

InitSuggest == SuggestInit /\ ConvIdle /\ InsightIdle /\ OthersIdle
NextSuggest == SuggestBidEdit
SpecSuggest == InitSuggest /\ [][NextSuggest]_vars

InitInsight == InsightInit /\ ConvIdle /\ SuggestIdle /\ OthersIdle
NextInsight == GetBidInsights \/ ImprovePoorBid \/ ImproveDone
SpecInsight == InitInsight /\ [][NextInsight]_vars

Init == MainInit /\ ScoreIdle /\ BidIdle /\ RecIdle /\ ScrapeIdle /\ EnrichIdle /\ MoreIdle
Next ==
    \/ BrowserInit \/ Login \/ CheckRemaining \/ FetchInsights
    \/ SuggestEdit \/ EditPoorBid \/ Recheck
    \/ Scrape \/ Enrich \/ Recommend \/ Proposal \/ Submit
    \/ SaveSession \/ CloseBrowser
Spec == Init /\ [][Next]_vars

(***************************************************************************)
(* Properties.                                                             *)
(***************************************************************************)
Has(events, e) == \E i \in DOMAIN events : events[i] = e

FillEvents == {"fill amount", "fill period", "fill proposal", "fill milestone"}

Fills(events) == \E i \in DOMAIN events : events[i] \in FillEvents

\* The ids main handed to the named collaborator operation, in order.
RECURSIVE IdsOf(_, _)
IdsOf(log, name) ==
    IF log = <<>> THEN <<>>
    ELSE IF Head(log).op = name THEN <<Head(log).id>> \o IdsOf(Tail(log), name)
         ELSE IdsOf(Tail(log), name)

\* C1: in dry-run mode submitBid never clicks the Place Bid control, and editBid
\* never clicks the Edit or the Save control and fills no form field.
C1_DryRunChangesNothing ==
    (bRet # <<>> /\ bCall.dryRun) =>
        IF bCall.fn = "submitBid"
        THEN ~Has(bEvents, "click PlaceBid")
        ELSE /\ ~Has(bEvents, "click Edit")
             /\ ~Has(bEvents, "click Save")
             /\ ~Fills(bEvents)
             /\ bMs = bCall.page.msInputs

\* C1 witness: a dry-run submitBid that filled the form of a page offering the
\* Place Bid control, took the preview screenshot and returned.
C1_Witness ==
    /\ bRet = <<"false">>
    /\ bCall.fn = "submitBid"
    /\ bCall.dryRun
    /\ bCall.page.submitButton
    /\ Has(bEvents, "fill amount")
    /\ Has(bEvents, "screenshot")

\* C2 (as claimed): in live mode submitBid clicks the Place Bid control only
\* after an interactive confirmation was asked and answered yes.
C2_ClickOnlyAfterConfirmation ==
    (bRet # <<>> /\ bCall.fn = "submitBid" /\ ~bCall.dryRun) =>
        \A j \in DOMAIN bEvents :
            bEvents[j] = "click PlaceBid" =>
                \E i \in 1..(j - 1) : bEvents[i] = "ask confirmation: yes"

\* C3: when the loaded project page shows an existing-bid indicator (a marker
\* selector, one of the phrases, or the closed-form texts without a bid form)
\* submitBid returns false having filled no field, added no milestone and
\* clicked no submit control.
C3_ExistingBidLeavesFormAlone ==
    ( /\ bRet # <<>>
      /\ bCall.fn = "submitBid"
      /\ bCall.page.throwAt # "goto"
      /\ \/ bCall.page.indicator
         \/ bCall.page.phrase
         \/ (~bCall.page.formAtCheck /\ bCall.page.closedText) ) =>
        /\ bRet = <<"false">>
        /\ ~Fills(bEvents)
        /\ ~Has(bEvents, "click addMilestone")
        /\ ~Has(bEvents, "click PlaceBid")

\* C3 witness: a live call with milestones on a page whose text alone says the
\* bid exists, every field and the Place Bid control being present.
C3_Witness ==
    /\ bRet = <<"false">>
    /\ bCall.fn = "submitBid"
    /\ ~bCall.dryRun
    /\ bCall.nMs = MaxMilestones
    /\ bCall.page.throwAt = "none"
    /\ ~bCall.page.indicator
    /\ bCall.page.phrase
    /\ bCall.page.amount = "primary"
    /\ bCall.page.submitButton

\* C4 (as claimed): the projects main hands to submitBid are the first k
\* entries of the score-descending recommended list, and k never exceeds the
\* remaining-bid count getRemainingBids returned, whatever it returned.
C4_BidsWithinRemaining ==
    LET invoked == IdsOf(mLog, "submitBid")
        k == Len(invoked)
    IN  k > 0 =>
            /\ k <= Len(mRecommended)
            /\ \A i \in 1..k : invoked[i] = mRecommended[i].id
            /\ \A i \in 1..(Len(mRecommended) - 1) :
                   mRecommended[i].score >= mRecommended[i + 1].score
            /\ k <= mRemaining[1]

\* C5: when getRemainingBids reports 0 and the run is not in improve-bids mode,
\* main goes straight to its cleanup: no scraping, enrichment, scoring,
\* proposal or bid submission is ever invoked.
C5_ZeroBidsStopsBeforeWork ==
    (mRemaining = <<0>> /\ ~mCfg.improveBidsMode) =>
        /\ mPc \in {"save", "close", "exit"}
        /\ \A i \in DOMAIN mLog :
               mLog[i].op \notin {"getBidInsights", "scrapeProjects",
                                  "enrichProjectsWithDetails", "recommendProjects",
                                  "proposal", "submitBid"}

\* C5 witness: such a run has ended with the browser closed.
C5_Witness ==
    /\ mRemaining = <<0>>
    /\ ~mCfg.improveBidsMode
    /\ mPc = "exit"
    /\ mBrowser = "closed"

C7_AmountWithinBudget ==
    sScore # <<>> =>
        /\ sProject[1].budget.min <= sScore[1].amount
        /\ sScore[1].amount <= sProject[1].budget.max

\* C8 (as claimed): every ProjectScore recommendProjects returns has a score
\* between 0 and 100, whatever the LLM answered.
C8_ScoreWithinRange ==
    (rFn = "recommend" /\ rPc = "done") =>
        \A i \in DOMAIN rScores : rScores[i].score >= 0 /\ rScores[i].score <= 100

\* C9: an LLM call that fails with an error holding neither "429" nor
\* "Too Many Requests" is the last event of its retry loop: no sleep and no
\* further call follow, the loop has thrown, and when it was the first call
\* the loop made exactly that one attempt.
C9_OtherErrorsPropagateAtOnce ==
    \A k \in DOMAIN rInv :
        (rInv[k].ev = "call error" /\ ~rInv[k].has429 /\ ~rInv[k].tooMany) =>
            /\ k = Len(rInv)
            /\ rInvResult = "threw"
            /\ rPc # "sleep"
            /\ rDelay = 0

\* C9 witness: a retry loop that threw after one attempt, on such an error.
C9_Witness ==
    /\ rInvResult = "threw"
    /\ Len(rInv) = 1
    /\ rInv[1].ev = "call error"
    /\ ~rInv[1].has429
    /\ ~rInv[1].tooMany

\* C10 (as claimed): every backoff sleep is followed by another attempt of the
\* call; no sleep is the last step before the retry loop gives up.
C10_NoSleepBeforeGivingUp ==
    (rInvResult \in {"threw", "template"} /\ rInv # <<>>) =>
        rInv[Len(rInv)].ev # "sleep"

\* The retry loop's invocation consists of rate-limit failures only.
AllRateLimited(inv) ==
    \A i \in DOMAIN inv :
        inv[i].ev = "sleep" \/ (inv[i].ev = "call error" /\ (inv[i].has429 \/ inv[i].tooMany))

Calls(inv) == {i \in DOMAIN inv : inv[i].ev # "sleep"}

\* C11: when every LLM call fails with a rate-limit error,
\* analyzeProjectWithRetry makes at most MAX_RETRIES = 3 calls, the sleep after
\* call k (k = 1, 2, 3) lasts 5000 * 2^(k-1) ms unless the error text carries a
\* delay, and after the last sleep it has thrown instead of calling again.
C11_RateLimitedRetriesEnd ==
    (rFn = "recommend" /\ AllRateLimited(rInv)) =>
        /\ Cardinality(Calls(rInv)) <= MAX_RETRIES
        /\ MAX_RETRIES = 3
        /\ \A i \in DOMAIN rInv :
              rInv[i].ev = "sleep" =>
                  /\ i \in {2, 4, 6}
                  /\ rInv[i].ms \in {7000, IF i = 2 THEN 5000 ELSE IF i = 4 THEN 10000 ELSE 20000}
        /\ (Len(rInv) = 2 * MAX_RETRIES) => rInvResult = "threw"

C11_Witness ==
    /\ rFn = "recommend"
    /\ rInvResult = "threw"
    /\ AllRateLimited(rInv)
    /\ Len(rInv) = 6
    /\ rInv[2].ms = 5000 /\ rInv[4].ms = 10000 /\ rInv[6].ms = 20000

\* C12: recommendProjects never aborts and returns exactly one ProjectScore
\* per input project; a project whose scoring failed has score 0, amount =
\* budget.min (1000 when budget.min is 0), period = the default delivery days
\* and no milestones.
C12_OneScorePerProject ==
    (rFn = "recommend") =>
        /\ rPc # "threw"
        /\ Len(rScores) <= Len(rProjects)
        /\ (rInvResult = "threw" /\ rPc \in {"call", "sort"}) =>
              LET s == rScores[Len(rScores)]
                  failed == IF rPc = "call" THEN rIdx - 1 ELSE rIdx
                  min == rProjects[failed].budget.min
              IN  /\ s.id = failed
                  /\ s.score = 0
                  /\ s.amount = (IF min = 0 THEN 1000 ELSE min)
                  /\ s.period = 14
                  /\ s.milestones = <<>>
        /\ (rPc \in {"sort", "done"}) =>
              /\ Len(rScores) = Len(rProjects)
              /\ \A k \in DOMAIN rProjects :
                    Cardinality({i \in DOMAIN rScores : rScores[i].id = k}) = 1

C12_Witness ==
    /\ rFn = "recommend"
    /\ rPc = "done"
    /\ Len(rScores) = 2
    /\ \E i, j \in DOMAIN rScores :
          /\ rScores[i].milestones = <<>> /\ rScores[i].amount = 1000
          /\ rScores[j].milestones # <<>>

\* main's log holds operation `name` for item id (any outcome / rejected).
InLog(log, name, id) == \E i \in DOMAIN log : log[i].op = name /\ log[i].id = id

ThrewIn(log, name, id) ==
    \E i \in DOMAIN log : log[i].op = name /\ log[i].id = id /\ log[i].threw

\* C13 (as claimed): a non-rate-limit LLM error raised while generating the
\* proposal of one selected project aborts that project only; when main has
\* ended, every later selected project has had its proposal made and its bid
\* submitted in the same run.
C13_LaterProjectsStillProcessed ==
    (mPc = "exit") =>
        \A i \in DOMAIN mToBid :
            ThrewIn(mLog, "proposal", mToBid[i].id) =>
                \A j \in DOMAIN mToBid :
                    j > i => /\ InLog(mLog, "proposal", mToBid[j].id)
                             /\ InLog(mLog, "submitBid", mToBid[j].id)

\* C14 (as claimed): whenever main has ended after the browser was
\* initialised, saveSession was invoked, close was invoked after it, and the
\* browser is closed.
C14_SessionSavedThenBrowserClosed ==
    (mPc = "exit" /\ mBrowser # "none") =>
        /\ mBrowser = "closed"
        /\ \E i, j \in DOMAIN mLog :
              i < j /\ mLog[i].op = "saveSession" /\ mLog[j].op = "close"

\* C15: enrichProjectsWithDetails keeps length and order: element i is the
\* unchanged original project when i >= maxToEnrich or when its detail fetch
\* threw, and otherwise the enriched version of the same project (same id);
\* a failure does not abort the rest.
C15_EnrichKeepsListShape ==
    /\ Len(eOut) = Len(eFetch)
    /\ (ePc = "done") => Len(eOut) = Len(eProjects)
    /\ \A i \in DOMAIN eOut :
          IF i - 1 >= eMax \/ eFetch[i] = "threw"
          THEN eOut[i] = eProjects[i]
          ELSE /\ eOut[i].id = eProjects[i].id
               /\ eOut[i].details # <<>>

C15_Witness ==
    /\ ePc = "done"
    /\ Len(eProjects) = 2
    /\ eFetch = <<"threw", "ok">>
    /\ eOut[1] = eProjects[1]
    /\ eOut[2].details # <<>>

\* The anchors of a page that carry a non-empty title.
Titled(anchors) == {i \in DOMAIN anchors : anchors[i].title # ""}

\* C16: for any page contents scrapeProjectsFromPage(N) returns at most N
\* records, scrapeProjects returns at most maxProjects projects, and no
\* returned record has an empty title.
C16_NeverMoreThanAsked ==
    /\ \A N \in 0..(MaxAnchors + 1) :
          LET recs == scrapeProjectsFromPage(N, pAnchors)
          IN  /\ Len(recs) <= N
              /\ \A i \in DOMAIN recs : recs[i].title # ""
    /\ \A i \in DOMAIN pAll : pAll[i].title # ""
    /\ (pResult # <<>>) =>
          /\ Len(pResult[1]) <= pMaxProjects
          /\ \A i \in DOMAIN pResult[1] : pResult[1][i].title # ""

C16_Witness ==
    /\ pResult # <<>>
    /\ pMaxProjects > 0
    /\ Len(pAll) > pMaxProjects
    /\ Len(pResult[1]) = pMaxProjects
    /\ Cardinality(Titled(pAnchors)) = 2
    /\ Len(scrapeProjectsFromPage(1, pAnchors)) = 1

\* C17 (as claimed): an anchor without a title does not use up one of the N
\* slots of scrapeProjectsFromPage(N): a page with at least N titled anchors
\* yields N records.
C17_UntitledTakesNoSlot ==
    \A N \in 0..MaxAnchors :
        Cardinality(Titled(pAnchors)) >= N =>
            Len(scrapeProjectsFromPage(N, pAnchors)) = N

\* C18: scrapeProjects navigates to page k only if k <= maxPages and fewer
\* than maxProjects distinct ids were collected from the pages before it.
C18_NavigatesOnlyWhileShort ==
    /\ Len(pNav) <= pMaxPages
    /\ \A k \in DOMAIN pNav : pNav[k] < pMaxProjects
    /\ \A k \in DOMAIN pNav :
          k < Len(pNav) => pNav[k] <= pNav[k + 1]
    /\ (pPc = "loop") => Len(pNav) = pPageNum - 1

C18_Witness ==
    /\ pPc = "done"
    /\ pMaxPages = 2
    /\ Len(pNav) = 1
    /\ pMaxProjects > 0
    /\ Len(pAll) >= pMaxProjects

\* Position of the first record with this id in a list of records.
FirstWith(recs, id) == CHOOSE i \in DOMAIN recs :
    recs[i].id = id /\ \A j \in DOMAIN recs : recs[j].id = id => i <= j

\* C19: the list scrapeProjects returns holds no id twice: of the records
\* sharing an id only the first seen is kept, in first-seen order.
C19_FirstOccurrenceOnly ==
    LET recs == scrapeProjectsFromPage(projectsPerPage, pAnchors)
        new == SubSeq(pAll, Len(pPrev) + 1, Len(pAll))
    IN  /\ \A i, j \in DOMAIN pAll : pAll[i].id = pAll[j].id => i = j
        /\ Len(pPrev) <= Len(pAll) /\ SubSeq(pAll, 1, Len(pPrev)) = pPrev
        /\ \A i \in DOMAIN recs : \E j \in DOMAIN pAll : pAll[j].id = recs[i].id
        /\ \A j \in DOMAIN new :
              /\ \E i \in DOMAIN recs : recs[i].id = new[j].id
              /\ new[j] = recs[FirstWith(recs, new[j].id)]
              /\ \A k \in DOMAIN new :
                    j < k => FirstWith(recs, new[j].id) < FirstWith(recs, new[k].id)
        /\ (pResult # <<>>) =>
              /\ \A i, j \in DOMAIN pResult[1] :
                    pResult[1][i].id = pResult[1][j].id => i = j
              /\ \A i \in DOMAIN pResult[1] :
                    pResult[1][i].id = pAll[i].id /\ pResult[1][i].title = pAll[i].title

C19_Witness ==
    /\ pResult # <<>>
    /\ Len(pNav) = 2
    /\ pPrev # <<>>
    /\ Len(pResult[1]) = 2
    /\ \E i \in DOMAIN pAnchors :
          /\ pAnchors[i].title # ""
          /\ anchorId(pAnchors[i], i - 1) = pPrev[1].id
          /\ pAnchors[i].title # pPrev[1].title
    /\ pResult[1][1].id = pPrev[1].id /\ pResult[1][1].title = pPrev[1].title

\* C20 (as claimed): a Project made by convertRawProjects has a parsed budget
\* with budget.min <= budget.max, or an unparsed one with min = max = 0.
C20_BudgetOrdered ==
    (sProject # <<>>) =>
        LET budget == sProject[1].budget
        IN  \/ budget.parsed /\ budget.min <= budget.max
            \/ ~budget.parsed /\ budget.min = 0 /\ budget.max = 0

\* The three cards of the scenario: a dollar range with a USD code, a rupee
\* range with an INR code, and a string with no range in it.
DollarCard ==
    [ sym1 |-> "dollar", amounts |-> <<500, 1000>>, sep |-> "hyphen",
      sym2 |-> "dollar", code |-> "USD", perHour |-> FALSE ]

RupeeCard ==
    [ sym1 |-> "rupee", amounts |-> <<10000, 20000>>, sep |-> "hyphen",
      sym2 |-> "rupee", code |-> "INR", perHour |-> FALSE ]

\* C21 (as claimed): the dollar card, the rupee card and an unparseable card
\* all convert to isHourly = false, with currencies USD, INR and USD, and
\* with min = max = 0 for the unparseable card only.
C21_ThreeCardsConverted ==
    (cProject # <<>>) =>
        LET text == cText[1]
            b == cProject[1]
        IN  /\ (text = DollarCard) =>
                  ~b.isHourly /\ b.currency = "USD" /\ ~(b.min = 0 /\ b.max = 0)
            /\ (text = RupeeCard) =>
                  ~b.isHourly /\ b.currency = "INR" /\ ~(b.min = 0 /\ b.max = 0)
            /\ (text.sep = "none" /\ ~text.perHour) =>
                  ~b.isHourly /\ b.currency = "USD" /\ b.min = 0 /\ b.max = 0

\* C22: with no LLM credential suggestBidEdit returns round(currentBid * (1 - r))
\* with r = 15% above position 75, 10% above 50, else 5% (position = rank/total
\* in percent, 100 when total = 0), and the label aggressive, moderate or
\* conservative for 15%, 10%, 5%.
C22_RuleTableWithoutCredential ==
    (gOut # <<>> /\ ~gCall[1].hasKey) =>
        LET c == gCall[1]
            over75 == IF c.totalBids = 0 THEN TRUE ELSE c.bidRank * 100 > 75 * c.totalBids
            over50 == IF c.totalBids = 0 THEN TRUE ELSE c.bidRank * 100 > 50 * c.totalBids
            r == IF over75 THEN 15 ELSE IF over50 THEN 10 ELSE 5
        IN  /\ gOut[1].suggestedAmount = << (2 * c.currentBid * (100 - r) + 100) \div 200 >>
            /\ gOut[1].strategy = (CASE r = 15 -> "aggressive"
                                     [] r = 10 -> "moderate"
                                     [] OTHER -> "conservative")

C22_Witness ==
    /\ gOut # <<>>
    /\ ~gCall[1].hasKey
    /\ gCall[1].currentBid = 100 /\ gCall[1].bidRank = 4 /\ gCall[1].totalBids = 4
    /\ gOut[1].suggestedAmount = <<85>>
    /\ gOut[1].strategy = "aggressive"

\* The LLM gave no usable suggestion: the call failed, or the response holds
\* no JSON object, invalid JSON, or an object without a numeric suggestedAmount.
NoUsableSuggestion(llm) ==
    llm.kind \in {"call fails", "no JSON", "invalid JSON"}
    \/ (llm.kind = "object" /\ llm.amount = <<>>)

\* C23 (as claimed): with a credential, whenever the LLM gives no usable
\* suggestion, suggestBidEdit returns the amount and the strategy of the
\* deterministic rule table for the same currentBid, rank and total.
C23_FallbackEqualsRuleTable ==
    (gOut # <<>> /\ gCall[1].hasKey /\ NoUsableSuggestion(gCall[1].llm)) =>
        LET t == ruleTable(gCall[1].currentBid, gCall[1].bidRank, gCall[1].totalBids)
        IN  /\ gOut[1].suggestedAmount = t.suggestedAmount
            /\ gOut[1].strategy = t.strategy

\* C25: an insight with bidRank = 0 or totalBids = 0 is in the poor display
\* bucket of getBidInsights, yet suggestBidEdit and editBid are never invoked
\* for it in improve mode.
C25_UnknownPositionShownNotEdited ==
    /\ (iBuckets # <<>>) =>
          \A i \in DOMAIN iBids :
              (iBids[i].bidRank = 0 \/ iBids[i].totalBids = 0) =>
                  /\ \E j \in DOMAIN iBuckets[1].poor : iBuckets[1].poor[j] = iBids[i]
                  /\ \A j \in DOMAIN iBuckets[1].good : iBuckets[1].good[j] # iBids[i]
                  /\ \A j \in DOMAIN iBuckets[1].ok : iBuckets[1].ok[j] # iBids[i]
    /\ \A k \in DOMAIN iCalls :
          iCalls[k].bid.bidRank # 0 /\ iCalls[k].bid.totalBids # 0

C25_Witness ==
    /\ iPc = "done"
    /\ Len(iBids) = 2
    /\ iBids[1].bidRank = 0
    /\ Len(iBuckets[1].poor) = 2
    /\ Len(iCalls) = 2
    /\ iCalls[2].op = "editBid" /\ iCalls[2].bid = iBids[2]

\* C29 (as claimed): suggestBidEdit never returns a suggestedAmount greater
\* than currentBid, with or without the LLM.
C29_SuggestionNeverRaisesBid ==
    (gOut # <<>> /\ gOut[1].suggestedAmount # <<>>) =>
        gOut[1].suggestedAmount[1] <= gCall[1].currentBid

\* A live editBid call that reached the milestone inputs with both amounts given.
LiveRescale ==
    /\ bRet # <<>>
    /\ bCall.fn = "editBid"
    /\ bRet[1] # "threw"
    /\ ~bCall.dryRun
    /\ bCall.page.editButton # "none"
    /\ bCall.newAmount > 0 /\ bCall.originalAmount > 0
    /\ Len(bCall.page.msInputs) > 0

\* C24 (as claimed): after a live editBid with originalAmount and newAmount
\* given, whatever the milestone inputs held, their amounts sum exactly to
\* newAmount, every milestone but the last being max(1, round(old * newAmount /
\* originalAmount)).
C24_RescaledMilestonesSumToNewAmount ==
    LiveRescale =>
        /\ SumSeq(bMs) = bCall.newAmount
        /\ \A i \in 1..(Len(bMs) - 1) :
              LET old == bCall.page.msInputs[i]
                  nv == (2 * old * bCall.newAmount + bCall.originalAmount)
                            \div (2 * bCall.originalAmount)
              IN  bMs[i] = IF nv < 1 THEN 1 ELSE nv

\* C26: submitBid returns true exactly when the run is live, no existing-bid
\* indicator was found, the Place Bid control was clicked, no error banner is
\* present after the click and nothing threw; every other completed call
\* returns false.
C26_TrueOnlyForPlacedBid ==
    (bRet # <<>> /\ bCall.fn = "submitBid" /\ bRet[1] # "threw") =>
        /\ bRet[1] \in {"true", "false"}
        /\ (bRet[1] = "true") <=>
              /\ ~bCall.dryRun
              /\ ~alreadyBid(bCall.page)
              /\ Has(bEvents, "click PlaceBid")
              /\ ~bCall.page.errorAlert
              /\ bCall.page.throwAt = "none"

C26_Witness ==
    /\ bRet = <<"true">>
    /\ bCall.fn = "submitBid"
    /\ ~bCall.dryRun
    /\ Has(bEvents, "click PlaceBid")
    /\ Has(bEvents, "fill amount")

\* C27: when no edit control is found editBid returns false and has clicked
\* nothing, filled nothing and saved nothing, in dry-run and live mode alike.
C27_NoEditControlNoChange ==
    (bRet # <<>> /\ bCall.fn = "editBid" /\ bCall.page.editButton = "none"
       /\ bCall.page.throwAt # "goto") =>
        /\ bRet[1] = "false"
        /\ bMs = bCall.page.msInputs
        /\ \A i \in DOMAIN bEvents :
              bEvents[i] \notin {"click Edit", "click amount", "fill amount",
                                 "fill milestone", "click proposal", "fill proposal",
                                 "click Save", "log dry run"}

C27_Witness ==
    /\ bRet = <<"false">>
    /\ bCall.fn = "editBid"
    /\ bCall.page.editButton = "none"
    /\ ~bCall.dryRun
    /\ bCall.newAmount > 0
    /\ bCall.page.saveButton /\ bCall.page.amountInput
    /\ Len(bCall.page.msInputs) > 0

\* C28 (as claimed): when recommendProjects is about to make the first LLM
\* call for a project that is not the first, the fixed inter-request delay of
\* 2000 ms has just elapsed, whether the project before was scored or failed.
C28_DelayBeforeNextProject ==
    (rFn = "recommend" /\ rPc = "call" /\ rAttempt = 0 /\ rIdx > 1) =>
        /\ rInv # <<>>
        /\ rInv[Len(rInv)].ev = "delay"
        /\ rInv[Len(rInv)].ms = 2000

\* C30: with minScore above 0, a project whose score is the fallback of a
\* failed analysis is never passed to submitBid.
C30_FallbackNeverBidOn ==
    /\ minScore > 0
    /\ \A k \in DOMAIN mLog :
          mLog[k].op = "submitBid" =>
              \A i \in DOMAIN mScores :
                  mScores[i].id = mLog[k].id =>
                      ~mScores[i].fallback /\ mScores[i].score >= minScore

C30_Witness ==
    /\ mPc = "exit"
    /\ \E k \in DOMAIN mLog : mLog[k].op = "submitBid"
    /\ \E i \in DOMAIN mScores : mScores[i].fallback
    /\ Len(mScores) = 2

====
